---- MODULE Spec2Model ----
(***************************************************************************)
(* Model of onshape_to_robot/simulation.py: class Simulation.              *)
(*                                                                         *)
(* The physics engine (pybullet) is an external collaborator: the model    *)
(* records the engine API calls each operation issues (calls) instead of   *)
(* the engine's own state.  Times are integers in milliseconds.  Joint     *)
(* names are sequences of tokens; the markers '_frame' and '_fixing' are   *)
(* tokens, so Python's substring test  marker in name  is token            *)
(* membership.                                                             *)
(***************************************************************************)
EXTENDS Integers, Sequences, FiniteSets, TLC

VARIABLES
    pc,             \* "new" while __init__ scans the joints, then "ready"
    engineJoints,   \* the engine's joint list: name of joint k at position k+1
    scanK,          \* loop variable k of the scan in __init__
    scanN,          \* counter n of the scan in __init__
    joints,         \* self.joints: name -> simulator index
    jointsIndexes,  \* self.jointsIndexes: name -> ordinal among the DOFs
    frames,         \* self.frames: name -> simulator index
    realTime,       \* self.realTime
    t,              \* self.t (ms)
    start,          \* self.start (ms)
    lines,          \* self.lines: sequence of dicts
    currentLine,    \* self.currentLine
    lastLinesDraw,  \* self.lastLinesDraw (ms)
    ball,           \* self.ball: None or the ball's body id
    now,            \* the wall clock, what time.time() returns (ms)
    lastOp,         \* the operation that ran last
    raised,         \* whether it raised an exception
    calls,          \* the engine API calls (and sleeps) it issued, in order
    ticksDone,      \* tick() calls that returned since __init__ or reset()
    drawPass,       \* the drawing pass of the last drawDebugLines: none, done, aborted
    args,           \* the arguments it was called with
    delay,          \* <<delay>>, tick's local variable (line 412); << >> when unset
    convIn,         \* pose conversion: the input of the round trip
    convMid,        \* pose conversion: the intermediate value
    convOut,        \* pose conversion: the result of the round trip
    convPc          \* pose conversion: position in the round trip

registry == <<joints, jointsIndexes, frames>>
scanVars == <<pc, engineJoints, scanK, scanN>>
loopVars == <<t, start, lines, currentLine, lastLinesDraw, now, ticksDone,
             drawPass>>
opVars == <<lastOp, args, raised, calls, delay>>
convVars == <<convIn, convMid, convOut, convPc>>
vars == <<scanVars, registry, realTime, loopVars, ball, opVars, convVars>>

None == "None"

(***************************************************************************)
(* Bounds of the model.                                                    *)
(***************************************************************************)
MaxJoints == 3      \* longest engine joint list explored for __init__
MaxTargets == 2     \* longest dict passed to setJoints / resetJoints
MaxTicks == 3       \* SpecLoop: tick() is explored while t < MaxTicks * dt
MaxLines == 2       \* SpecLoop: self.lines grows up to MaxLines slots
MaxNow == 165       \* SpecLoop: the wall clock is explored up to MaxNow (ms)
ApiTicks == 1       \* Spec: as MaxTicks
ApiLines == 1       \* Spec: as MaxLines
ApiNow == 165       \* Spec: as MaxNow
BootTime == 100     \* wall-clock time at construction (ms since the epoch)

(***************************************************************************)
(* Program constants.                                                      *)
(***************************************************************************)
dt == 5                 \* self.dt = 0.005 s
DrawPeriod == 50        \* 0.05 s in drawDebugLines
DefaultDuration == 30   \* duration=30 in addDebugPosition
LineWidth == 2          \* the width passed to addUserDebugLine
lineColors ==
    << <<1, 0, 0>>, <<0, 1, 0>>, <<0, 0, 1>>,
       <<1, 1, 0>>, <<1, 0, 1>>, <<0, 1, 1>> >>

(***************************************************************************)
(* Python dicts as functions; d[key] = value.                              *)
(***************************************************************************)
EmptyDict == << >>

DictSet(d, key, value) ==
    [x \in (DOMAIN d) \cup {key} |-> IF x = key THEN value ELSE d[x]]

DictDel(d, key) == [x \in (DOMAIN d) \ {key} |-> d[x]]

\* d.values() / d.keys() in insertion order.  The registries are filled in
\* the order of increasing simulator index.
RECURSIVE KeysFrom(_, _, _)
KeysFrom(d, list, i) ==
    IF i > Len(list) THEN << >>
    ELSE IF list[i] \in DOMAIN d /\ \A j \in 1..(i - 1) : list[j] # list[i]
         THEN <<list[i]>> \o KeysFrom(d, list, i + 1)
         ELSE KeysFrom(d, list, i + 1)

(***************************************************************************)
(* Names.   marker in name                                                 *)
(***************************************************************************)
Contains(name, marker) == \E i \in 1..Len(name) : name[i] = marker

JointNames ==
    { <<"arm">>, <<"leg">>, <<"tip", "_frame">>, <<"_frame", "eye">>,
      <<"weld", "_fixing">>, <<"_fixing", "lens", "_frame">> }

RECURSIVE SeqsUpTo(_, _)
SeqsUpTo(S, len) ==
    IF len = 0 THEN { << >> }
    ELSE LET shorter == SeqsUpTo(S, len - 1)
         IN  shorter \cup { Append(s, x) : s \in shorter, x \in S }

UniqueNames(list) ==
    \A i, j \in 1..Len(list) : list[i] = list[j] => i = j

(***************************************************************************)
(* __init__, lines 83-99: one iteration of  for k in range(getNumJoints).  *)
(***************************************************************************)
\* Mutants: the marker is looked for at the end of the name only.
IsFixingSuffix(name) == name[Len(name)] = "_fixing"
IsFrameSuffix(name) == name[Len(name)] = "_frame"

\* line 93
IsFixing(name) == Contains(name, "_fixing")
\* line 94
IsFrame(name) == Contains(name, "_frame")

ScanJoint ==
    /\ pc = "new"
    /\ scanK < Len(engineJoints)
    /\ LET name == engineJoints[scanK + 1]
       IN  IF ~IsFixing(name)
           THEN IF IsFrame(name)
                THEN /\ frames' = DictSet(frames, name, scanK)
                     /\ UNCHANGED <<joints, jointsIndexes, scanN>>
                ELSE /\ jointsIndexes' = DictSet(jointsIndexes, name, scanN)
                     /\ scanN' = scanN + 1
                     /\ joints' = DictSet(joints, name, scanK)
                     /\ UNCHANGED frames
           ELSE UNCHANGED <<joints, jointsIndexes, frames, scanN>>
    /\ scanK' = scanK + 1
    /\ UNCHANGED <<pc, engineJoints, realTime, loopVars, ball,
                   opVars, convVars>>

ScanDone ==
    /\ pc = "new"
    /\ scanK = Len(engineJoints)
    /\ pc' = "ready"
    /\ UNCHANGED <<engineJoints, scanK, scanN, registry, realTime, loopVars,
                   ball, opVars, convVars>>

(***************************************************************************)
(* Inputs of the operations.                                               *)
(***************************************************************************)
Robot == << <<"arm">>, <<"tip", "_frame">>, <<"weld", "_fixing">>, <<"leg">> >>

CallNames == { Robot[i] : i \in 1..Len(Robot) } \cup { <<"ghost">> }
Angles == {0, 1}
Heights == {5, 6}
Orientations == {"straight", "front", "back", "side"}
Points == {"p", "q"}
ElapseSteps == {60}         \* wall-clock time passing between two calls
StepCosts == {0, 5, 60}     \* wall-clock time one stepSimulation takes
OverSleep == {0, 60}        \* time.sleep(d) lasts d or longer

ProbeNames == { <<"tip", "_frame">>, <<"ghost">> }
ProbeDicts ==
    { << >>, << <<<<"arm">>, 1>> >>, << <<<<"ghost">>, 1>> >>,
      << <<<<"leg">>, 1>>, <<<<"tip", "_frame">>, 0>> >> }

\* A dict name -> angle, as the sequence of its items in iteration order.
TargetDicts ==
    { d \in SeqsUpTo(CallNames \X Angles, MaxTargets) :
        \A i, j \in 1..Len(d) : d[i][1] = d[j][1] => i = j }

Finish(op, a, exc, issued) ==
    /\ lastOp' = op
    /\ args' = a
    /\ delay' = << >>
    /\ raised' = exc
    /\ calls' = issued

(***************************************************************************)
(* setRobotPose, lines 201-208; resetPose, lines 244-251.                  *)
(***************************************************************************)
SetRobotPoseCalls(pos, orn) ==
    << <<"resetBasePositionAndOrientation", "robot", pos, orn>> >>

SetRobotPose(pos, orn) ==
    /\ pc = "ready"
    /\ Finish("setRobotPose", <<pos, orn>>, FALSE, SetRobotPoseCalls(pos, orn))
    /\ UNCHANGED <<scanVars, registry, realTime, loopVars, ball,
                   convVars>>

ResetPose(pos, orn) ==
    /\ pc = "ready"
    /\ Finish("resetPose", <<pos, orn>>, FALSE, SetRobotPoseCalls(pos, orn))
    /\ UNCHANGED <<scanVars, registry, realTime, loopVars, ball,
                   convVars>>

(***************************************************************************)
(* The ball: "Ball is loaded when needed", lines 72-73; setBallPos,        *)
(* lines 210-219.                                                          *)
(***************************************************************************)
LoadBall ==
    /\ pc = "ready"
    /\ ball = None
    /\ ball' = "ball"
    /\ Finish("loadBall", << >>, FALSE, << >>)
    /\ UNCHANGED <<scanVars, registry, realTime, loopVars, convVars>>

SetBallPosCalls(x, y) ==
    IF ball # None
    THEN << <<"resetBasePositionAndOrientation", ball, <<x, y, 6>>,
              <<"getQuaternionFromEuler", <<0, 0, 0>>>> >>,
            <<"changeDynamics", ball, 0>> >>
    ELSE << >>

SetBallPos(x, y) ==
    /\ pc = "ready"
    /\ Finish("setBallPos", <<x, y>>, FALSE, SetBallPosCalls(x, y))
    /\ UNCHANGED <<scanVars, registry, realTime, loopVars, ball,
                   convVars>>

(***************************************************************************)
(* reset, lines 221-242.  Pitch is in units of pi/2.                       *)
(***************************************************************************)
ResetOrn(orientation) ==
    IF orientation = "front" THEN <<0, 1, 0>>
    ELSE IF orientation = "back" THEN <<0, -1, 0>>
    ELSE <<0, 0, 0>>

ResetJointCalls ==
    LET values == KeysFrom(joints, engineJoints, 1)
    IN  [i \in 1..Len(values) |-> <<"resetJointState", "robot", joints[values[i]], 0>>]

ResetCalls(height, orientation) ==
    SetRobotPoseCalls(<<0, 0, height>>,
                      <<"getQuaternionFromEuler", ResetOrn(orientation)>>)
    \o ResetJointCalls

Reset(height, orientation) ==
    /\ pc = "ready"
    /\ lines' = << >>
    /\ t' = 0
    /\ start' = now
    /\ ticksDone' = 0
    /\ Finish("reset", <<height, orientation>>, FALSE, ResetCalls(height, orientation))
    /\ UNCHANGED <<scanVars, registry, realTime, currentLine, lastLinesDraw, now,
                   drawPass, ball, convVars>>

(***************************************************************************)
(* getFrame, lines 253-263; getFrames, lines 265-279; getJoints, 306-312.  *)
(***************************************************************************)
GetFrame(frame) ==
    /\ pc = "ready"
    /\ IF frame \in DOMAIN frames
       THEN Finish("getFrame", <<frame>>, FALSE,
                   << <<"getLinkState", "robot", frames[frame]>> >>)
       ELSE Finish("getFrame", <<frame>>, TRUE, << >>)
    /\ UNCHANGED <<scanVars, registry, realTime, loopVars, ball,
                   convVars>>

GetFramesCalls ==
    LET keys == KeysFrom(frames, engineJoints, 1)
    IN  [i \in 1..Len(keys) |-> <<"getLinkState", "robot", frames[keys[i]]>>]

GetFrames ==
    /\ pc = "ready"
    /\ Finish("getFrames", << >>, FALSE, GetFramesCalls)
    /\ UNCHANGED <<scanVars, registry, realTime, loopVars, ball,
                   convVars>>

GetJoints ==
    /\ pc = "ready"
    /\ Finish("getJoints", << >>, FALSE, << >>)
    /\ UNCHANGED <<scanVars, registry, realTime, loopVars, ball,
                   convVars>>

(***************************************************************************)
(* resetJoints, lines 281-288: self.joints[name] raises KeyError.          *)
(***************************************************************************)
\* Mutant: a name that is not found is registered with a fresh index.
ResetJointsRegistering(targets) ==
    /\ pc = "ready"
    /\ joints' = [name \in (DOMAIN joints) \cup { targets[i][1] : i \in 1..Len(targets) }
                    |-> IF name \in DOMAIN joints THEN joints[name]
                        ELSE Len(engineJoints)]
    /\ Finish("resetJoints", targets, FALSE,
              [i \in 1..Len(targets) |->
                  <<"resetJointState", "robot", joints'[targets[i][1]], targets[i][2]>>])
    /\ UNCHANGED <<scanVars, jointsIndexes, frames, realTime, loopVars, ball,
                   convVars>>

RECURSIVE ResetJointsFrom(_, _, _)
ResetJointsFrom(targets, i, issued) ==
    IF i > Len(targets) THEN [calls |-> issued, raised |-> FALSE]
    ELSE LET name == targets[i][1]
             angle == targets[i][2]
         IN  IF name \in DOMAIN joints
             THEN ResetJointsFrom(targets, i + 1,
                      Append(issued, <<"resetJointState", "robot", joints[name], angle>>))
             ELSE [calls |-> issued, raised |-> TRUE]

ResetJoints(targets) ==
    /\ pc = "ready"
    /\ LET r == ResetJointsFrom(targets, 1, << >>)
       IN  Finish("resetJoints", targets, r.raised, r.calls)
    /\ UNCHANGED <<scanVars, registry, realTime, loopVars, ball, convVars>>

(***************************************************************************)
(* setJoints, lines 290-304.                                               *)
(***************************************************************************)
IsRegisteredJoint(name) == name \in DOMAIN joints

\* Mutant: a name that is not found is skipped instead of raising.
RECURSIVE SetJointsSkipping(_, _, _)
SetJointsSkipping(targets, i, issued) ==
    IF i > Len(targets) THEN [calls |-> issued, raised |-> FALSE]
    ELSE LET name == targets[i][1]
             angle == targets[i][2]
         IN  IF IsRegisteredJoint(name)
             THEN SetJointsSkipping(targets, i + 1,
                      Append(issued, <<"setJointMotorControl2", "robot", joints[name],
                                       "POSITION_CONTROL", angle>>))
             ELSE SetJointsSkipping(targets, i + 1, issued)

RECURSIVE SetJointsFrom(_, _, _)
SetJointsFrom(targets, i, issued) ==
    IF i > Len(targets) THEN [calls |-> issued, raised |-> FALSE]
    ELSE LET name == targets[i][1]
             angle == targets[i][2]
         IN  IF IsRegisteredJoint(name)
             THEN SetJointsFrom(targets, i + 1,
                      Append(issued, <<"setJointMotorControl2", "robot", joints[name],
                                       "POSITION_CONTROL", angle>>))
             ELSE [calls |-> issued, raised |-> TRUE]

SetJoints(targets) ==
    /\ pc = "ready"
    /\ LET r == SetJointsFrom(targets, 1, << >>)
       IN  Finish("setJoints", targets, r.raised, r.calls)
    /\ UNCHANGED <<scanVars, registry, realTime, loopVars, ball, convVars>>

(***************************************************************************)
(* addDebugPosition, lines 331-352.  A slot of self.lines is a dict with   *)
(* the keys 'update', 'to', 'color', 'duration' and 'from'.                *)
(***************************************************************************)
DefaultColor(cursor) == lineColors[(cursor % Len(lineColors)) + 1]

\* line 344: if self.currentLine >= len(self.lines): self.lines.append({})
NeedsSlot(cursor, ls) == cursor >= Len(ls)

AddDebugPosition(position, color, duration) ==
    /\ pc = "ready"
    /\ LET col == IF color = None THEN DefaultColor(currentLine) ELSE color
           grown == IF NeedsSlot(currentLine, lines)
                    THEN Append(lines, EmptyDict) ELSE lines
       IN  IF currentLine + 1 > Len(grown)
           THEN \* self.lines[self.currentLine] raises IndexError
                /\ lines' = grown
                /\ currentLine' = currentLine
                /\ Finish("addDebugPosition", <<position, color, duration>>,
                          TRUE, << >>)
           ELSE /\ lines' =
                      [grown EXCEPT ![currentLine + 1] =
                          DictSet(DictSet(DictSet(DictSet(@,
                              "update", TRUE), "to", position),
                              "color", col), "duration", duration)]
                /\ currentLine' = currentLine + 1
                /\ Finish("addDebugPosition", <<position, color, duration>>,
                          FALSE, << >>)
    /\ UNCHANGED <<scanVars, registry, realTime, t, start, lastLinesDraw, now,
                   ticksDone, drawPass, ball, convVars>>

(***************************************************************************)
(* drawDebugLines, lines 354-367.  DrawPass is the loop of lines 358-365   *)
(* from slot i on; a missing key raises KeyError and leaves the slots as   *)
(* they are at that point.                                                 *)
(***************************************************************************)
\* lines 359-360: the slot is drawn
IsDrawn(line) == "from" \in DOMAIN line /\ line["update"] = TRUE

RECURSIVE DrawPass(_, _, _)
DrawPass(ls, i, issued) ==
    IF i > Len(ls) THEN [lines |-> ls, calls |-> issued, raised |-> FALSE]
    ELSE LET line == ls[i]
             hasFrom == "from" \in DOMAIN line
         IN  IF hasFrom /\ ~({"update", "to", "color", "duration"} \subseteq DOMAIN line)
             THEN [lines |-> ls, calls |-> issued, raised |-> TRUE]
             ELSE
             LET drawn == IsDrawn(line)
                 line1 == IF hasFrom
                          THEN IF drawn THEN DictSet(line, "update", FALSE)
                                        ELSE DictDel(line, "from")
                          ELSE line
                 issued1 == IF drawn
                            THEN Append(issued,
                                   <<"addUserDebugLine", line["from"], line["to"],
                                     line["color"], LineWidth, line["duration"]>>)
                            ELSE issued
             IN  IF "to" \notin DOMAIN line1
                 THEN [lines |-> [ls EXCEPT ![i] = line1], calls |-> issued1,
                       raised |-> TRUE]
                 ELSE DrawPass([ls EXCEPT ![i] = DictSet(line1, "from", line1["to"])],
                               i + 1, issued1)

\* line 357
PassDue(clock, last) == clock - last > DrawPeriod

\* The whole of drawDebugLines but for currentLine = 0: pass is "none" when
\* no pass was due, "done" when the pass ran to its end, "aborted" when it
\* raised.
DrawDebugLinesResult(ls, last, clock) ==
    IF PassDue(clock, last)
    THEN LET r == DrawPass(ls, 1, << >>)
         IN  [lines |-> r.lines, calls |-> r.calls, raised |-> r.raised,
              lastLinesDraw |-> IF r.raised THEN last ELSE clock,
              pass |-> IF r.raised THEN "aborted" ELSE "done"]
    ELSE [lines |-> ls, calls |-> << >>, raised |-> FALSE,
          lastLinesDraw |-> last, pass |-> "none"]

DrawDebugLines ==
    /\ pc = "ready"
    /\ currentLine' = 0
    /\ LET r == DrawDebugLinesResult(lines, lastLinesDraw, now)
       IN  /\ lines' = r.lines
           /\ lastLinesDraw' = r.lastLinesDraw
           /\ drawPass' = r.pass
           /\ lastOp' = "drawDebugLines"
           /\ args' = << >>
           /\ raised' = r.raised
           /\ calls' = r.calls
           /\ delay' = << >>
    /\ UNCHANGED <<scanVars, registry, realTime, t, start, now, ticksDone, ball,
                   convVars>>

(***************************************************************************)
(* tick, lines 406-414.                                                    *)
(***************************************************************************)
\* Mutant: the sleep does not depend on realTime.
ShouldSleepAnyMode(d, rt) == d > 0

\* line 413
ShouldSleep(d, rt) == d > 0 /\ rt

\* line 408
Advance(time) == time + dt

Tick ==
    /\ pc = "ready"
    /\ t' = Advance(t)
    /\ currentLine' = 0
    /\ lastOp' = "tick"
    /\ args' = << >>
    /\ LET r == DrawDebugLinesResult(lines, lastLinesDraw, now)
       IN  /\ lines' = r.lines
           /\ lastLinesDraw' = r.lastLinesDraw
           /\ drawPass' = r.pass
           /\ IF r.raised
              THEN /\ raised' = TRUE
                   /\ calls' = r.calls
                   /\ delay' = << >>
                   /\ UNCHANGED <<now, ticksDone>>
              ELSE \E cost \in StepCosts, over \in OverSleep :
                   LET clock == now + cost
                       d == t' - (clock - start)
                   IN  /\ raised' = FALSE
                       /\ delay' = <<d>>
                       /\ ticksDone' = ticksDone + 1
                       /\ IF ShouldSleep(d, realTime)
                          THEN /\ calls' = r.calls \o << <<"stepSimulation">>,
                                                        <<"sleep", d>> >>
                               /\ now' = clock + d + over
                          ELSE /\ calls' = Append(r.calls, <<"stepSimulation">>)
                               /\ now' = clock
    /\ UNCHANGED <<scanVars, registry, realTime, start, ball, convVars>>

(***************************************************************************)
(* Wall-clock time passing between two calls: lastOp is "elapse" then.     *)
(***************************************************************************)
Elapse(d) ==
    /\ pc = "ready"
    /\ now' = now + d
    /\ Finish("elapse", << >>, FALSE, << >>)
    /\ UNCHANGED <<scanVars, registry, realTime, t, start, lines, currentLine,
                   lastLinesDraw, ticksDone, drawPass, ball, convVars>>

(***************************************************************************)
(* Pose conversion, lines 174-199.  A pose is <<position, quaternion>>,    *)
(* the quaternion in the engine's order x, y, z, w; a matrix is the         *)
(* sequence of its four rows.  Quaternion components are integers in units *)
(* of 1/2, so a unit quaternion has squared norm 4; UnitQuats are the 24   *)
(* unit quaternions with components in {0, +-1/2, +-1}, whose rotation      *)
(* matrices have entries in {-1, 0, 1}: the arithmetic is exact.           *)
(***************************************************************************)
Norm2(q) == q[1] * q[1] + q[2] * q[2] + q[3] * q[3] + q[4] * q[4]

UnitQuats ==
    { q \in (-2..2) \X (-2..2) \X (-2..2) \X (-2..2) : Norm2(q) = 4 }

Positions == { <<0, 0, 0>>, <<1, 2, 3>> }

Poses == Positions \X UnitQuats

Negated(q) == <<-q[1], -q[2], -q[3], -q[4]>>

\* transforms3d.quaternions.quat2mat(q), q = [w, x, y, z]: with s = 2 / Nq
\* the entries are 1 - s(yy + zz), s(xy - wz), ...; each is computed here as
\* one quotient by Nq, which is exact on UnitQuats.
Quat2Mat(q) ==
    LET w == q[1]   x == q[2]   y == q[3]   z == q[4]
        Nq == w * w + x * x + y * y + z * z
        Scaled(e) == (2 * e) \div Nq
    IN  << <<1 - Scaled(y * y + z * z), Scaled(x * y - w * z), Scaled(x * z + w * y)>>,
           <<Scaled(x * y + w * z), 1 - Scaled(x * x + z * z), Scaled(y * z - w * x)>>,
           <<Scaled(x * z - w * y), Scaled(y * z + w * x), 1 - Scaled(x * x + y * y)>> >>

\* transforms3d.quaternions.mat2quat(M): the unit quaternion [w, x, y, z] of
\* the rotation M with w >= 0; when w = 0 the sign is the eigenvector
\* routine's, either one.
Mat2Quat(M) == { q \in UnitQuats : Quat2Mat(q) = M /\ q[1] >= 0 }

RotationMatrices == { Quat2Mat(q) : q \in UnitQuats }

\* The rigid transform with rotation block R and translation column p.
Rigid(R, p) ==
    << <<R[1][1], R[1][2], R[1][3], p[1]>>,
       <<R[2][1], R[2][2], R[2][3], p[2]>>,
       <<R[3][1], R[3][2], R[3][3], p[3]>>,
       <<0, 0, 0, 1>> >>

RigidTransforms == { Rigid(R, p) : R \in RotationMatrices, p \in Positions }

\* Mutant: the quaternion is passed to quat2mat in the engine's order.
PoseToMatrixNoReorder(pose) == Rigid(Quat2Mat(pose[2]), pose[1])

\* poseToMatrix, lines 174-187
PoseToMatrix(pose) ==
    LET translation == pose[1]
        quaternion == pose[2]
        rotation == Quat2Mat(<<quaternion[4], quaternion[1],
                               quaternion[2], quaternion[3]>>)
        identity == [i \in 1..4 |-> [j \in 1..4 |-> IF i = j THEN 1 ELSE 0]]
    IN  [i \in 1..4 |-> [j \in 1..4 |->
            IF i <= 3 /\ j <= 3 THEN rotation[i][j]
            ELSE IF i <= 3 /\ j = 4 THEN translation[i]
            ELSE identity[i][j]]]

\* matrixToPose, lines 189-199: the poses it may return.
MatrixToPose(matrix) ==
    LET translation == <<matrix[1][4], matrix[2][4], matrix[3][4]>>
        block == [i \in 1..3 |-> [j \in 1..3 |-> matrix[i][j]]]
    IN  { <<translation, <<q[2], q[3], q[4], q[1]>>>> : q \in Mat2Quat(block) }

PoseToMatrixCall ==
    /\ \/ /\ convPc = "pose"
          /\ convMid' = PoseToMatrix(convIn)
          /\ convPc' = "pose.matrix"
          /\ UNCHANGED convOut
       \/ /\ convPc = "matrix.pose"
          /\ convOut' = PoseToMatrix(convMid)
          /\ convPc' = "matrix.pose.matrix"
          /\ UNCHANGED convMid
    /\ UNCHANGED <<scanVars, registry, realTime, loopVars, ball, opVars, convIn>>

MatrixToPoseCall ==
    /\ \/ /\ convPc = "matrix"
          /\ convMid' \in MatrixToPose(convIn)
          /\ convPc' = "matrix.pose"
          /\ UNCHANGED convOut
       \/ /\ convPc = "pose.matrix"
          /\ convOut' \in MatrixToPose(convMid)
          /\ convPc' = "pose.matrix.pose"
          /\ UNCHANGED convMid
    /\ UNCHANGED <<scanVars, registry, realTime, loopVars, ball, opVars, convIn>>

(***************************************************************************)
(* The state after the field initialisations of __init__, lines 30-41, 73, *)
(* 84-89, over the engine joint list list.                                 *)
(***************************************************************************)
InitFields(list) ==
    /\ pc = "new"
    /\ engineJoints = list
    /\ scanK = 0
    /\ scanN = 0
    /\ joints = EmptyDict
    /\ jointsIndexes = EmptyDict
    /\ frames = EmptyDict
    /\ realTime \in BOOLEAN
    /\ t = 0
    /\ now = BootTime
    /\ start = now
    /\ lines = << >>
    /\ currentLine = 0
    /\ lastLinesDraw = 0
    /\ ball = None
    /\ drawPass = "none"
    /\ lastOp = "__init__"
    /\ args = << >>
    /\ raised = FALSE
    /\ calls = << >>
    /\ delay = << >>
    /\ ticksDone = 0

NoConversion ==
    /\ convIn = None
    /\ convMid = None
    /\ convOut = None
    /\ convPc = "off"

Init == InitFields(Robot) /\ NoConversion

Construct == ScanJoint \/ ScanDone

(***************************************************************************)
(* Spec: every operation of a constructed Simulation, the dict and frame   *)
(* arguments drawn from ProbeDicts and ProbeNames.                         *)
(***************************************************************************)
\* The debug-line and tick operations, explored within the given bounds.
LoopOperation(maxTicks, maxLines, maxNow) ==
    \/ \E position \in Points :
        /\ Len(lines) < maxLines \/ ~NeedsSlot(currentLine, lines)
        /\ AddDebugPosition(position, None, DefaultDuration)
    \/ DrawDebugLines
    \/ t < maxTicks * dt /\ Tick /\ now' <= maxNow
    \/ \E d \in ElapseSteps : now + d <= maxNow /\ Elapse(d)

Operation ==
    \/ \E o \in {"straight", "back"} : Reset(5, o)
    \/ ResetPose(<<0, 0, 5>>, <<0, 0, 0, 1>>)
    \/ SetRobotPose(<<0, 0, 5>>, <<0, 0, 0, 1>>)
    \/ \E targets \in ProbeDicts : ResetJoints(targets)
    \/ \E targets \in ProbeDicts : SetJoints(targets)
    \/ GetJoints
    \/ \E f \in ProbeNames : GetFrame(f)
    \/ GetFrames
    \/ LoopOperation(ApiTicks, ApiLines, ApiNow)

Next == Construct \/ Operation

Spec == Init /\ [][Next]_vars

(***************************************************************************)
(* SpecJoints: the joint, pose and ball operations over all arguments.     *)
(***************************************************************************)
JointOperation ==
    \/ \E h \in Heights, o \in Orientations : Reset(h, o)
    \/ \E h \in Heights : ResetPose(<<0, 0, h>>, <<0, 0, 0, 1>>)
    \/ \E h \in Heights : SetRobotPose(<<0, 0, h>>, <<0, 0, 0, 1>>)
    \/ \E targets \in TargetDicts : ResetJoints(targets)
    \/ \E targets \in TargetDicts : SetJoints(targets)
    \/ GetJoints
    \/ \E f \in CallNames : GetFrame(f)
    \/ GetFrames
    \/ LoadBall
    \/ \E x \in {0, 1} : SetBallPos(x, 0)

NextJoints == Construct \/ JointOperation

SpecJoints == Init /\ [][NextJoints]_vars

(***************************************************************************)
(* SpecLoop: reset, the debug lines and the tick loop.                     *)
(***************************************************************************)
NextLoop ==
    \/ Construct
    \/ \E h \in Heights, o \in {"straight", "front"} : Reset(h, o)
    \/ LoopOperation(MaxTicks, MaxLines, MaxNow)

SpecLoop == Init /\ [][NextLoop]_vars

(***************************************************************************)
(* SpecPose: the two pose conversions applied one after the other, to      *)
(* every pose of Poses and to every matrix of RigidTransforms.             *)
(***************************************************************************)
InitPose ==
    /\ InitFields(Robot)
    /\ \/ convPc = "pose" /\ convIn \in Poses
       \/ convPc = "matrix" /\ convIn \in RigidTransforms
    /\ convMid = None
    /\ convOut = None

NextPose == PoseToMatrixCall \/ MatrixToPoseCall

SpecPose == InitPose /\ [][NextPose]_vars

(***************************************************************************)
(* SpecNew: __init__ over every engine joint list of up to MaxJoints       *)
(* joints.                                                                 *)
(***************************************************************************)
InitNew ==
    /\ \E list \in SeqsUpTo(JointNames, MaxJoints) : InitFields(list)
    /\ NoConversion

SpecNew == InitNew /\ [][Construct]_vars

(***************************************************************************)
(* Claims about the registries.                                            *)
(***************************************************************************)
HasFixing(name) == \E i \in 1..Len(name) : name[i] = "_fixing"
HasFrame(name) == \E i \in 1..Len(name) : name[i] = "_frame"
ScannedNames == { engineJoints[i] : i \in 1..Len(engineJoints) }
Constructed == pc = "ready" /\ UniqueNames(engineJoints)

\* C1: after construction over joints with unique names, a joint whose name
\* does not contain '_fixing' is in frames (name contains '_frame') or else in
\* joints, never in both, with its simulator index k as the value; a joint
\* whose name contains '_fixing' is in neither registry; the key sets are
\* disjoint and together are the non-fixing names.
C1_RegistryClassification ==
    Constructed =>
        /\ \A i \in 1..Len(engineJoints) :
            LET name == engineJoints[i]
                k == i - 1
            IN  /\ (~HasFixing(name) /\ HasFrame(name)) =>
                       /\ name \in DOMAIN frames /\ frames[name] = k
                       /\ name \notin DOMAIN joints
                /\ (~HasFixing(name) /\ ~HasFrame(name)) =>
                       /\ name \in DOMAIN joints /\ joints[name] = k
                       /\ name \notin DOMAIN frames
                /\ HasFixing(name) =>
                       name \notin DOMAIN joints /\ name \notin DOMAIN frames
        /\ (DOMAIN frames) \cap (DOMAIN joints) = {}
        /\ (DOMAIN frames) \cup (DOMAIN joints)
               = { name \in ScannedNames : ~HasFixing(name) }

C1_Witness ==
    /\ Constructed
    /\ engineJoints = << <<"_fixing", "lens", "_frame">>, <<"_frame", "eye">>, <<"leg">> >>

\* C2: after construction over joints with unique names, jointsIndexes has
\* the keys of joints and maps them one-to-one onto 0..len(joints)-1 in the
\* order of increasing simulator index: the ordinal of a joint is the number
\* of controllable joints (neither fixing nor frame) scanned before it.
C2_OrdinalsDense ==
    Constructed =>
        /\ DOMAIN jointsIndexes = DOMAIN joints
        /\ { jointsIndexes[name] : name \in DOMAIN jointsIndexes }
               = 0..(Cardinality(DOMAIN joints) - 1)
        /\ \A a, b \in DOMAIN jointsIndexes :
               /\ jointsIndexes[a] = jointsIndexes[b] => a = b
               /\ joints[a] < joints[b] => jointsIndexes[a] < jointsIndexes[b]
        /\ \A i \in 1..Len(engineJoints) :
               LET name == engineJoints[i]
               IN  (~HasFixing(name) /\ ~HasFrame(name)) =>
                       /\ name \in DOMAIN jointsIndexes
                       /\ jointsIndexes[name] =
                              Cardinality({ j \in 1..(i - 1) :
                                  /\ ~HasFixing(engineJoints[j])
                                  /\ ~HasFrame(engineJoints[j]) })

C2_Witness ==
    /\ Constructed
    /\ engineJoints = << <<"arm">>, <<"_frame", "eye">>, <<"leg">> >>
    /\ jointsIndexes[<<"leg">>] = 1
    /\ joints[<<"leg">>] = 2

\* C3: once constructed, no operation, raising or not, changes joints,
\* jointsIndexes or frames.
C3_RegistryImmutable ==
    [][pc = "ready" => (joints' = joints /\ jointsIndexes' = jointsIndexes
                        /\ frames' = frames)]_vars

C3_Witness ==
    /\ lastOp = "resetJoints"
    /\ raised
    /\ Len(calls) = 1
    /\ DOMAIN joints = { <<"arm">>, <<"leg">> }
    /\ DOMAIN frames = { <<"tip", "_frame">> }

(***************************************************************************)
(* Claims about setJoints and reset.                                       *)
(***************************************************************************)
\* C4: setJoints raises if and only if some key is not a registered
\* controllable joint; when it does not raise it issues exactly one
\* position-control command per key, to that joint's simulator index with the
\* given angle, and no other command.
C4_SetJointsCommands ==
    lastOp = "setJoints" =>
        /\ raised <=> \E i \in 1..Len(args) :
                          \/ args[i][1] \notin ScannedNames
                          \/ HasFixing(args[i][1])
                          \/ HasFrame(args[i][1])
        /\ ~raised =>
               /\ Len(calls) = Len(args)
               /\ \A i \in 1..Len(args) :
                      \E k \in 0..(Len(engineJoints) - 1) :
                          /\ engineJoints[k + 1] = args[i][1]
                          /\ calls[i] = <<"setJointMotorControl2", "robot", k,
                                          "POSITION_CONTROL", args[i][2]>>

C4_Witness ==
    /\ lastOp = "setJoints"
    /\ ~raised
    /\ args = << <<<<"leg">>, 1>>, <<<<"arm">>, 0>> >>
    /\ Len(calls) = 2

\* C6: after reset(height, orientation) t is 0, every registered joint has
\* been reset to angle 0, the base is at [0, 0, height] with the pitch the
\* keyword selects, and the ball, if one is loaded, has been put back.
C6_ResetRestoresAll ==
    lastOp = "reset" =>
        /\ t = 0
        /\ \E i \in 1..Len(calls) :
               calls[i] = <<"resetBasePositionAndOrientation", "robot",
                            <<0, 0, args[1]>>,
                            <<"getQuaternionFromEuler",
                              <<0, CASE args[2] = "front" -> 1
                                     [] args[2] = "back" -> -1
                                     [] OTHER -> 0, 0>>>>>>
        /\ \A name \in DOMAIN joints :
               \E i \in 1..Len(calls) :
                   calls[i] = <<"resetJointState", "robot", joints[name], 0>>
        /\ ball # None =>
               \E i \in 1..Len(calls) :
                   /\ calls[i][1] = "resetBasePositionAndOrientation"
                   /\ calls[i][2] = ball

(***************************************************************************)
(* Claims about the tick loop and the debug lines.                         *)
(***************************************************************************)
CallsNamed(fn) == { i \in 1..Len(calls) : calls[i][1] = fn }
Slept == CallsNamed("sleep") # {}

\* C7: in every state t is dt times the number of tick() calls completed
\* since construction or the last reset(), and each tick() calls
\* stepSimulation exactly once, after the debug lines of that tick are drawn.
C7_TimeIsTickCount ==
    pc = "ready" =>
        /\ t = dt * ticksDone
        /\ lastOp = "tick" =>
               /\ Cardinality(CallsNamed("stepSimulation")) = 1
               /\ \A i \in CallsNamed("addUserDebugLine"),
                     j \in CallsNamed("stepSimulation") : i < j

\* C8: tick() sleeps if and only if realTime is true and, after the engine
\* step, t is strictly ahead of the wall-clock time elapsed since start; the
\* requested sleep is that lead; when tick() returns with realTime true, t is
\* not ahead of the elapsed wall-clock time; with realTime false, or when the
\* simulation lags, tick() does not sleep, and it steps the engine once.
C8_RealTimePacing ==
    lastOp = "tick" =>
        /\ Slept <=> (delay # << >> /\ realTime /\ delay[1] > 0)
        /\ Slept => /\ Cardinality(CallsNamed("sleep")) = 1
                    /\ calls[Len(calls)] = <<"sleep", delay[1]>>
                    /\ \E over \in OverSleep : now - start = t + over
        /\ ~realTime => ~Slept
        /\ ~raised =>
               /\ delay # << >>
               /\ ~Slept => delay[1] = t - (now - start)
               /\ realTime => t <= now - start
               /\ Cardinality(CallsNamed("stepSimulation")) = 1

C8_Witness ==
    /\ lastOp = "tick"
    /\ realTime
    /\ Slept
    /\ delay = <<dt>>
    /\ t = 2 * dt

\* C9: drawDebugLines sets currentLine to 0; a segment is sent only for a
\* slot that had a from-point and a set 'update' flag, from its from-point to
\* its to-point, and the flag is cleared; after every drawing pass each
\* slot's from-point equals its to-point.
C9_PassChainsSlots ==
    lastOp \in {"drawDebugLines", "tick"} =>
        /\ currentLine = 0
        /\ drawPass = "none" => CallsNamed("addUserDebugLine") = {}
        /\ drawPass # "none" =>
               /\ \A i \in 1..Len(lines) :
                      /\ {"from", "to"} \subseteq DOMAIN lines[i]
                      /\ lines[i]["from"] = lines[i]["to"]
               /\ \A c \in CallsNamed("addUserDebugLine") :
                      \E i \in 1..Len(lines) :
                          /\ lines[i]["to"] = calls[c][3]
                          /\ lines[i]["update"] = FALSE

\* C10: in every state 0 <= currentLine <= len(lines), so addDebugPosition
\* writes an existing slot or the one it has just appended and never raises.
C10_CursorInBounds ==
    pc = "ready" =>
        /\ 0 <= currentLine
        /\ currentLine <= Len(lines)
        /\ lastOp = "addDebugPosition" => ~raised

(***************************************************************************)
(* Claims about the pose conversion.                                       *)
(***************************************************************************)
\* C5 as stated: matrixToPose(poseToMatrix(pose)) is the same position and
\* the same quaternion, and poseToMatrix(matrixToPose(M)) = M.
C5_RoundTripExact ==
    convPc \in {"pose.matrix.pose", "matrix.pose.matrix"} => convOut = convIn

\* C5 as amended: matrixToPose(poseToMatrix(pose)) is the same position and
\* the quaternion of the same rotation with w >= 0, in the order x, y, z, w:
\* the original one when its w > 0, its negation when w < 0, either when
\* w = 0; poseToMatrix(matrixToPose(M)) = M; the translation is written to
\* and read from rows 0..2 of column 3.
C5_RoundTripUpToSign ==
    /\ convPc = "pose.matrix.pose" =>
           /\ convOut[1] = convIn[1]
           /\ convOut[2] \in {convIn[2], Negated(convIn[2])}
           /\ convOut[2][4] >= 0
    /\ convPc = "matrix.pose.matrix" => convOut = convIn
    /\ convPc = "pose.matrix" =>
           /\ <<convMid[1][4], convMid[2][4], convMid[3][4]>> = convIn[1]
           /\ convMid[4] = <<0, 0, 0, 1>>
    /\ convPc = "matrix.pose" =>
           convMid[1] = <<convIn[1][4], convIn[2][4], convIn[3][4]>>

C5_Witness ==
    /\ convPc = "pose.matrix.pose"
    /\ convIn = << <<1, 2, 3>>, <<1, -1, 1, -1>> >>
    /\ convOut = << <<1, 2, 3>>, <<-1, 1, -1, 1>> >>

====
